---- MODULE Spec2Model ----
(***************************************************************************)
(* jwlib/arguments.py: the Settings store with its closed-world            *)
(* __setattr__, the registry of predefined arguments (add_predefined),     *)
(* their activation (add_arguments) and parse_args, which runs argparse's  *)
(* scan over the activated arguments and writes into a Settings object.    *)
(***************************************************************************)
EXTENDS Integers, Sequences, FiniteSets, TLC

VARIABLES
    predefined,   \* ArgumentParser.predefined_arguments: name -> keywords
    actions,      \* the parser's activated arguments, in activation order
    store,        \* the Settings namespace: attribute -> value
    pc,           \* "idle" | "scan" | "done" | "error" | "raise" | "exit"
    tokens,       \* the argument strings of the current parse_args call
    pos,          \* argparse's start_index into tokens (1-based)
    positionals,  \* activated positionals not yet consumed by this parse
    extras,       \* positions of the tokens argparse could not match
    log,          \* side effects of the current parse, in execution order
    failAt,       \* position of the token whose handling aborted the parse
    outcome,      \* "" or the message / exception that ended the last call
    call,         \* the last API call: [op, name, arg]
    parses        \* number of parse_args calls so far

vars == <<predefined, actions, store, pc, tokens, pos, positionals, extras,
          log, failAt, outcome, call, parses>>

-----------------------------------------------------------------------------
(* Bounds of the model *)

MaxTokens == 3
MaxParses == 2

-----------------------------------------------------------------------------
(* Python values, tagged with their type *)

None == [t |-> "none", v |-> 0]
PyBool(b) == [t |-> "bool", v |-> b]
PyInt(n) == [t |-> "int", v |-> n]
PyFloat(n) == [t |-> "float", v |-> n]
PyStr(s) == [t |-> "str", v |-> s]
PyTuple(s) == [t |-> "tuple", v |-> s]
PyList(s) == [t |-> "list", v |-> s]
\* argparse.SUPPRESS, the parser-level argument_default
SUPPRESS == [t |-> "suppress", v |-> 0]

-----------------------------------------------------------------------------
(* Settings: the class attributes and __setattr__ *)

Settings ==
    [ work_dir |-> PyStr("."),
      quiet |-> PyInt(0),
      list_languages |-> PyBool(FALSE),
      lang |-> PyStr("E"),
      quality |-> PyInt(1080),
      hard_subtitles |-> PyBool(FALSE),
      min_date |-> None,
      include_categories |-> PyTuple(<<"VideoOnDemand">>),
      exclude_categories |-> PyTuple(<<>>),
      keep_free |-> PyInt(0),
      warning |-> PyBool(TRUE),
      download |-> PyBool(FALSE),
      download_subtitles |-> PyBool(FALSE),
      friendly_subtitle_filenames |-> PyBool(FALSE),
      curl_path |-> PyStr("curl"),
      rate_limit |-> PyStr("1M"),
      checksums |-> PyBool(TRUE),
      command |-> None,
      stream_forever |-> PyBool(FALSE),
      sub_dir |-> PyStr(""),
      mode |-> None,
      safe_filenames |-> PyBool(FALSE),
      include_keyname |-> PyBool(FALSE),
      clean_all_symlinks |-> PyBool(FALSE) ]

Fields == DOMAIN Settings

\* object.__setattr__ without the guard: creates the attribute when missing
SetattrUnguarded(ns, key, value) ==
    [ok |-> TRUE, ns |-> (key :> value) @@ ns]

\* a guard that also keeps a value once it differs from the class default
SetattrOnce(ns, key, value) ==
    IF key \notin DOMAIN ns THEN [ok |-> FALSE, ns |-> ns]
    ELSE IF ns[key] # Settings[key] THEN [ok |-> TRUE, ns |-> ns]
    ELSE [ok |-> TRUE, ns |-> [ns EXCEPT ![key] = value]]

\* Settings.__setattr__: getattr(self, key) raises AttributeError for a name
\* the object does not have; otherwise the attribute is overwritten
Setattr(ns, key, value) ==
    IF key \notin DOMAIN ns
    THEN [ok |-> FALSE, ns |-> ns]
    ELSE [ok |-> TRUE, ns |-> [ns EXCEPT ![key] = value]]

-----------------------------------------------------------------------------
(* The registry of predefined arguments *)

\* keyword arguments an add_predefined call leaves out
Keywords ==
    [ flags |-> <<>>, action |-> "store", function |-> "", nargs |-> "None",
      const |-> None, type |-> "str", choices |-> {}, dest |-> "" ]

\* the registry as ArgumentParser.__init__ fills it
PredefinedArguments ==
    ("--quiet" :> [Keywords EXCEPT !.flags = <<"--quiet", "-q">>,
                                   !.action = "count"])
 @@ ("--mode" :> [Keywords EXCEPT !.flags = <<"--mode", "-m">>,
        !.choices = {PyStr("stdout"), PyStr("filesystem"), PyStr("m3u"),
                     PyStr("m3ucompat"), PyStr("html")}])
 @@ ("--lang" :> [Keywords EXCEPT !.flags = <<"--lang", "-l">>,
        !.nargs = "?", !.action = "custom", !.function = "verify_language"])
 @@ ("--languages" :> [Keywords EXCEPT !.flags = <<"--languages">>,
        !.action = "custom", !.function = "print_language"])
 @@ ("--quality" :> [Keywords EXCEPT !.flags = <<"--quality", "-Q">>,
        !.type = "int",
        !.choices = {PyInt(240), PyInt(360), PyInt(480), PyInt(720)}])
 @@ ("--hard-subtitles" :> [Keywords EXCEPT !.flags = <<"--hard-subtitles">>,
        !.action = "store_true"])
 @@ ("--no-checksum" :> [Keywords EXCEPT !.flags = <<"--no-checksum">>,
        !.action = "store_false", !.dest = "checksum"])
 @@ ("--free" :> [Keywords EXCEPT !.flags = <<"--free">>, !.type = "int",
        !.dest = "keep_free", !.action = "custom", !.function = "mib"])
 @@ ("--no-warning" :> [Keywords EXCEPT !.flags = <<"--no-warning">>,
        !.dest = "warning", !.action = "store_false"])
 @@ ("--category" :> [Keywords EXCEPT !.flags = <<"--category", "-c">>,
        !.dest = "include_categories", !.action = "custom",
        !.function = "split"])
 @@ ("--exclude" :> [Keywords EXCEPT !.flags = <<"--exclude">>,
        !.dest = "exclude_categories", !.action = "custom",
        !.function = "split"])
 @@ ("--latest" :> [Keywords EXCEPT !.flags = <<"--latest">>,
        !.action = "store_const", !.const = PyList(<<"LatestVideos">>),
        !.dest = "include_categories"])
 @@ ("--since" :> [Keywords EXCEPT !.flags = <<"--since">>,
        !.dest = "min_date", !.action = "custom", !.function = "mktime"])
 @@ ("--limit-rate" :> [Keywords EXCEPT !.flags = <<"--limit-rate">>,
        !.dest = "rate_limit"])
 @@ ("--curl-path" :> [Keywords EXCEPT !.flags = <<"--curl-path">>])
 @@ ("--no-curl" :> [Keywords EXCEPT !.flags = <<"--no-curl">>,
        !.action = "store_const", !.const = None, !.dest = "curl_path"])
 @@ ("--clean-symlinks" :> [Keywords EXCEPT !.flags = <<"--clean-symlinks">>,
        !.action = "store_true", !.dest = "clean_all_symlinks"])
 @@ ("--ntfs" :> [Keywords EXCEPT !.flags = <<"--ntfs">>,
        !.action = "store_true", !.dest = "safe_filenames"])
 @@ ("--download" :> [Keywords EXCEPT !.flags = <<"--download", "-d">>,
        !.nargs = "?", !.const = PyStr("media"),
        !.choices = {PyStr("media"), PyStr("subtitles"),
                     PyStr("friendly-subtitles")}])
 @@ ("--forever" :> [Keywords EXCEPT !.flags = <<"--forever">>,
        !.action = "store_true", !.dest = "stream_forever"])
 @@ ("work_dir" :> [Keywords EXCEPT !.flags = <<"work_dir">>, !.nargs = "?"])
 @@ ("command" :> [Keywords EXCEPT !.flags = <<"command">>,
        !.nargs = "REMAINDER"])

\* dict.setdefault in place of the item assignment: an existing entry stays
RegisterIfAbsent(reg, flags, kwargs) ==
    IF flags[1] \in DOMAIN reg THEN reg
    ELSE (flags[1] :> [kwargs EXCEPT !.flags = flags]) @@ reg

\* add_predefined: predefined_arguments[flags[0]] = dict(flags=flags, **kwargs)
Register(reg, flags, kwargs) ==
    (flags[1] :> [kwargs EXCEPT !.flags = flags]) @@ reg

-----------------------------------------------------------------------------
(* Activation: add_arguments and argparse's add_argument *)

\* the strings of the model that start with '-' (argparse's prefix_chars)
DashStrings ==
    { "--quiet", "-q", "--mode", "-m", "--lang", "-l", "--languages",
      "--quality", "-Q", "--hard-subtitles", "--no-checksum", "--free",
      "--no-warning", "--category", "-c", "--exclude", "--latest", "--since",
      "--limit-rate", "--curl-path", "--no-curl", "--clean-symlinks",
      "--ntfs", "--download", "-d", "--forever", "--keyname", "--fs",
      "--la" }

\* argparse derives a missing dest from the first long option string:
\* the leading dashes stripped, every '-' replaced by '_'
DestFromOption ==
    ("--quiet" :> "quiet") @@ ("--mode" :> "mode") @@ ("--lang" :> "lang")
 @@ ("--languages" :> "languages") @@ ("--quality" :> "quality")
 @@ ("--hard-subtitles" :> "hard_subtitles")
 @@ ("--no-checksum" :> "no_checksum") @@ ("--free" :> "free")
 @@ ("--no-warning" :> "no_warning") @@ ("--category" :> "category")
 @@ ("--exclude" :> "exclude") @@ ("--latest" :> "latest")
 @@ ("--since" :> "since") @@ ("--limit-rate" :> "limit_rate")
 @@ ("--curl-path" :> "curl_path") @@ ("--no-curl" :> "no_curl")
 @@ ("--clean-symlinks" :> "clean_symlinks") @@ ("--ntfs" :> "ntfs")
 @@ ("--download" :> "download") @@ ("--forever" :> "forever")
 @@ ("--keyname" :> "keyname")

\* the argparse Action that add_argument builds from args and keywords; the
\* parser was constructed with argument_default=SUPPRESS, so every action's
\* default is SUPPRESS
MakeAction(args, keywords) ==
    LET optional == args[1] \in DashStrings
        zero == keywords.action \in
                    {"count", "store_true", "store_false", "store_const"}
    IN  [ option_strings |-> IF optional THEN args ELSE <<>>,
          dest |-> IF keywords.dest # "" THEN keywords.dest
                   ELSE IF optional THEN DestFromOption[args[1]]
                   ELSE args[1],
          nargs |-> IF zero THEN "0" ELSE keywords.nargs,
          action |-> keywords.action,
          function |-> keywords.function,
          const |-> CASE keywords.action = "store_true" -> PyBool(TRUE)
                      [] keywords.action = "store_false" -> PyBool(FALSE)
                      [] OTHER -> keywords.const,
          type |-> keywords.type,
          choices |-> keywords.choices,
          default |-> SUPPRESS ]

OptionStrings(acts) ==
    UNION { { acts[i].option_strings[k] :
                k \in DOMAIN acts[i].option_strings } : i \in DOMAIN acts }

\* add_arguments(flags): for each name in turn look the keywords up (KeyError
\* for an unknown name), pop 'flags' from them (KeyError once popped) and
\* hand both to add_argument (ArgumentError for an option string that is
\* already taken).  The first exception ends the loop; what was activated
\* before it stays activated.
RECURSIVE Activate(_, _, _)
Activate(reg, acts, flags) ==
    IF flags = <<>> THEN [reg |-> reg, acts |-> acts, err |-> ""]
    ELSE LET flag == Head(flags) IN
         IF flag \notin DOMAIN reg
         THEN [reg |-> reg, acts |-> acts, err |-> "KeyError"]
         ELSE LET keywords == reg[flag]
                  args == keywords.flags
                  popped == [reg EXCEPT ![flag].flags = <<>>]
              IN  IF args = <<>>
                  THEN [reg |-> reg, acts |-> acts, err |-> "KeyError"]
                  ELSE IF \E k \in DOMAIN args : args[k] \in OptionStrings(acts)
                  THEN [reg |-> popped, acts |-> acts,
                        err |-> "conflicting option string"]
                  ELSE Activate(popped,
                                Append(acts, MakeAction(args, keywords)),
                                Tail(flags))

-----------------------------------------------------------------------------
(* Coercions: argparse's type conversion and the functions wrapped by      *)
(* action_factory.  Strings are opaque, so each conversion is tabulated on *)
(* the argument strings of the model.                                      *)

\* int(s): the argument strings that are integer literals; any other raises
IntLiterals == ("480" :> 480) @@ ("999" :> 999) @@ ("100" :> 100)

\* s.split(','): the only argument string with a comma is "A,B"
SplitComma(s) == IF s = "A,B" THEN <<"A", "B">> ELSE <<s>>

\* time.mktime(time.strptime(s, '%Y-%m-%d')), UTC; any other string raises
Dates == ("2020-01-02" :> 1577923200)

MiB == 1024 * 1024

\* what get_jwb_languages returns when the request succeeds
RemoteLanguages ==
    << [code |-> "E", name |-> "English"], [code |-> "Z", name |-> "Swedish"] >>

\* verify_language(code); net: whether the request to the remote succeeds
verify_language(code, net) ==
    IF code = PyStr("E") THEN [status |-> "ok", value |-> code, outcome |-> ""]
    ELSE IF ~net THEN [status |-> "raise", value |-> None, outcome |-> "URLError"]
    ELSE IF \E i \in DOMAIN RemoteLanguages : PyStr(RemoteLanguages[i].code) = code
    THEN [status |-> "ok", value |-> code, outcome |-> ""]
    ELSE IF code.t = "str"
    THEN [status |-> "raise", value |-> None, outcome |-> "ValueError"]
    \* code + ': invalid language code' with a code that is no string
    ELSE [status |-> "raise", value |-> None, outcome |-> "TypeError"]

\* print_language(x): lists the codes and calls exit()
print_language(x, net) ==
    IF ~net THEN [status |-> "raise", value |-> None, outcome |-> "URLError"]
    ELSE [status |-> "exit", value |-> None, outcome |-> "exit"]

\* function(values) of CustomAction.__call__
Apply(function, values, net) ==
    CASE function = "verify_language" -> verify_language(values, net)
      [] function = "print_language" -> print_language(values, net)
      [] function = "mib" ->
            [status |-> "ok", value |-> PyInt(values.v * MiB), outcome |-> ""]
      [] function = "split" ->
            [status |-> "ok", value |-> PyTuple(SplitComma(values.v)),
             outcome |-> ""]
      [] function = "mktime" ->
            IF values.v \in DOMAIN Dates
            THEN [status |-> "ok", value |-> PyFloat(Dates[values.v]),
                  outcome |-> ""]
            ELSE [status |-> "raise", value |-> None, outcome |-> "ValueError"]

-----------------------------------------------------------------------------
(* argparse: values of a matched argument and the call of its action *)

\* _get_value: the type conversion of one argument string
GetValue(action, s) ==
    IF action.type = "int"
    THEN IF s \in DOMAIN IntLiterals
         THEN [ok |-> TRUE, value |-> PyInt(IntLiterals[s])]
         ELSE [ok |-> FALSE, value |-> None]
    ELSE [ok |-> TRUE, value |-> PyStr(s)]

\* _check_value with the choices ignored
CheckValueAny(action, value) == TRUE

\* _check_value: a value outside the action's choices is an invalid choice
CheckValue(action, value) ==
    action.choices = {} \/ value \in action.choices

Converted(action, s) ==
    LET g == GetValue(action, s) IN
    IF ~g.ok
    THEN [status |-> "error", value |-> None, outcome |-> "invalid int value"]
    ELSE IF ~CheckValue(action, g.value)
    THEN [status |-> "error", value |-> None, outcome |-> "invalid choice"]
    ELSE [status |-> "ok", value |-> g.value, outcome |-> ""]

\* _get_values(action, arg_strings)
GetValues(action, args) ==
    CASE action.nargs = "?" /\ args = <<>> ->
            LET value == IF action.option_strings # <<>> THEN action.const
                         ELSE action.default
            IN  IF value.t = "str" THEN Converted(action, value.v)
                ELSE [status |-> "ok", value |-> value, outcome |-> ""]
      [] action.nargs = "REMAINDER" ->
            [status |-> "ok", value |-> PyList(args), outcome |-> ""]
      [] action.nargs = "0" ->
            [status |-> "ok", value |-> PyList(<<>>), outcome |-> ""]
      [] OTHER -> Converted(action, args[1])

Written(r) ==
    IF r.ok THEN [status |-> "ok", ns |-> r.ns, outcome |-> ""]
    ELSE [status |-> "raise", ns |-> r.ns, outcome |-> "AttributeError"]

\* action(parser, namespace, values, option_string)
CallAction(ns, action, values, net) ==
    CASE action.action = "store" -> Written(Setattr(ns, action.dest, values))
      [] action.action \in {"store_const", "store_true", "store_false"} ->
            Written(Setattr(ns, action.dest, action.const))
      [] action.action = "count" ->
            \* getattr(namespace, dest, None), None counted as 0
            LET count == IF action.dest \in DOMAIN ns /\ ns[action.dest] # None
                         THEN ns[action.dest].v ELSE 0
            IN  Written(Setattr(ns, action.dest, PyInt(count + 1)))
      [] action.action = "custom" ->
            LET r == Apply(action.function, values, net) IN
            IF r.status = "ok" THEN Written(Setattr(ns, action.dest, r.value))
            ELSE [status |-> r.status, ns |-> ns, outcome |-> r.outcome]

\* take_action on the machine m = [store, log, status, outcome, failAt];
\* at: the position of the token that selected the action.  An argparse
\* error, an exception or exit() ends the parse: the actions after it in
\* the same call are not taken.
TakeAction(m, action, args, at, net) ==
    IF m.status # "ok" THEN m
    ELSE LET g == GetValues(action, args) IN
         IF g.status # "ok"
         THEN [m EXCEPT !.status = "error", !.outcome = g.outcome, !.failAt = at]
         ELSE IF g.value = SUPPRESS THEN m
         ELSE LET r == CallAction(m.store, action, g.value, net) IN
              CASE r.status = "ok" ->
                     [m EXCEPT !.store = r.ns,
                               !.log = Append(@, [at |-> at, ev |-> "write",
                                                  dest |-> action.dest])]
                [] r.status = "exit" ->
                     [m EXCEPT !.status = "exit", !.outcome = r.outcome,
                               !.log = Append(@, [at |-> at, ev |-> "exit",
                                                  dest |-> action.dest])]
                [] OTHER ->
                     [m EXCEPT !.status = "raise", !.outcome = r.outcome,
                               !.failAt = at]

-----------------------------------------------------------------------------
(* argparse: the scan of parse_known_args (Python 3.11).  An argument      *)
(* string that starts with '-' is an option string ('O' in argparse's      *)
(* pattern), any other an argument ('A').                                  *)

OptionIndices(toks) == { i \in DOMAIN toks : toks[i] \in DashStrings }

Largest(S) == CHOOSE x \in S : \A y \in S : y <= x
Smallest(S) == CHOOSE x \in S : \A y \in S : x <= y

\* max(option_string_indices), 0 when there is none
MaxOptionIndex(toks) ==
    IF OptionIndices(toks) = {} THEN 0 ELSE Largest(OptionIndices(toks))

NextOptionIndex(toks, start) ==
    Smallest({ i \in OptionIndices(toks) : i >= start })

\* the predefined long option strings that start with an abbreviation
Abbreviations == ("--la" :> {"--lang", "--languages", "--latest"})

\* _get_option_tuples: the option strings of the activated actions that an
\* argument string selects: itself when an action owns it, else the long
\* option strings it is a prefix of (allow_abbrev)
Matching(acts, tok) ==
    IF tok \in OptionStrings(acts) THEN {tok}
    ELSE IF tok \in DOMAIN Abbreviations
         THEN Abbreviations[tok] \cap OptionStrings(acts)
         ELSE {}

\* _parse_optional over the argument strings, before the loop: the
\* positions of the strings that could match more than one option
AmbiguousIndices(acts, toks) ==
    { i \in DOMAIN toks : Cardinality(Matching(acts, toks[i])) > 1 }

\* the activated action an option string selects, 0 when it selects none
ActionFor(acts, tok) ==
    IF Cardinality(Matching(acts, tok)) = 1
    THEN CHOOSE i \in DOMAIN acts :
           \E k \in DOMAIN acts[i].option_strings :
               acts[i].option_strings[k] \in Matching(acts, tok)
    ELSE 0

RECURSIVE LeadingArgs(_, _)
\* nargs='*' in place of REMAINDER: the arguments up to the next option string
LeadingArgs(toks, start) ==
    IF start > Len(toks) \/ toks[start] \in DashStrings THEN 0
    ELSE 1 + LeadingArgs(toks, start + 1)

\* nargs=REMAINDER matches '[-AO]*': every string that is left
RemainderCount(toks, start) == Len(toks) - start + 1

\* the number of argument strings an action takes at start; -1: no match
ArgCount(action, toks, start) ==
    LET avail == start <= Len(toks) /\ toks[start] \notin DashStrings IN
    CASE action.nargs = "0" -> 0
      [] action.nargs = "?" -> IF avail THEN 1 ELSE 0
      [] action.nargs = "REMAINDER" -> RemainderCount(toks, start)
      [] OTHER -> IF avail THEN 1 ELSE -1

RECURSIVE MatchPartial(_, _, _)
\* _match_arguments_partial: the counts of the longest prefix of the
\* positionals that matches
MatchPartial(ps, toks, start) ==
    IF ps = <<>> THEN <<>>
    ELSE LET n == ArgCount(Head(ps), toks, start) IN
         IF n < 0 THEN <<>>
         ELSE <<n>> \o MatchPartial(Tail(ps), toks, start + n)

RECURSIVE TakeAll(_, _, _, _, _, _)
TakeAll(m, ps, counts, toks, start, net) ==
    IF counts = <<>> THEN m
    ELSE TakeAll(TakeAction(m, Head(ps),
                            SubSeq(toks, start, start + Head(counts) - 1),
                            start, net),
                 Tail(ps), Tail(counts), toks, start + Head(counts), net)

RECURSIVE Sum(_)
Sum(counts) == IF counts = <<>> THEN 0 ELSE Head(counts) + Sum(Tail(counts))

\* consume_positionals(start_index)
ConsumePositionals(m, ps, toks, start, net) ==
    LET counts == MatchPartial(ps, toks, start) IN
    [ m |-> TakeAll(m, ps, counts, toks, start, net),
      pos |-> start + Sum(counts),
      positionals |-> SubSeq(ps, Len(counts) + 1, Len(ps)) ]

\* consume_optional that notes an error and lets the scan go on
ConsumeOptionalLenient(m, action, toks, start, net) ==
    LET n == ArgCount(action, toks, start + 1)
        r == IF n < 0
             THEN [m EXCEPT !.outcome = "expected one argument", !.failAt = start]
             ELSE TakeAction(m, action, SubSeq(toks, start + 1, start + n),
                             start, net)
    IN  [ m |-> [r EXCEPT !.status = IF @ = "error" THEN "ok" ELSE @],
          pos |-> start + 1 + (IF n < 0 THEN 0 ELSE n) ]

\* consume_optional(start_index) for the option string of an activated
\* action; parser.error, an exception or exit() leave parse_args at once
ConsumeOptional(m, action, toks, start, net) ==
    LET n == ArgCount(action, toks, start + 1) IN
    IF n < 0
    THEN [ m |-> [m EXCEPT !.status = "error",
                           !.outcome = "expected one argument",
                           !.failAt = start],
           pos |-> start + 1 ]
    ELSE [ m |-> TakeAction(m, action, SubSeq(toks, start + 1, start + n),
                            start, net),
           pos |-> start + 1 + n ]

Machine == [ store |-> store, log |-> log, status |-> "ok", outcome |-> "",
             failAt |-> failAt ]

Range(a, b) == [ i \in 1..(b - a + 1) |-> a + i - 1 ]

-----------------------------------------------------------------------------
(* The operations *)

Init ==
    /\ predefined = PredefinedArguments
    /\ actions = <<>>
    /\ store = Settings
    /\ pc = "idle"
    /\ tokens = <<>>
    /\ pos = 1
    /\ positionals = <<>>
    /\ extras = <<>>
    /\ log = <<>>
    /\ failAt = 0
    /\ outcome = ""
    /\ call = [op |-> "init", name |-> "", arg |-> None]
    /\ parses = 0

\* the argument lists a script activates
ActivationLists ==
    { <<n>> : n \in DOMAIN PredefinedArguments }
    \cup { <<"--latest", "--category">>, <<"--category", "--latest">>,
           <<"--no-curl", "--curl-path">>, <<"--curl-path", "--no-curl">>,
           <<"work_dir", "command">>, <<"command", "work_dir">>,
           <<"--hard-subtitles", "work_dir", "command">>,
           <<"--quality", "--hard-subtitles">>,
           <<"--languages", "--hard-subtitles">>,
           <<"--lang", "--languages">>,
           <<"--lang", "--latest", "work_dir", "command">>,
           <<"--bogus">>, <<"--quiet", "--quiet">> }

\* parser.add_arguments(flags), on a parser whose last call was its
\* construction or a registration
AddArguments(flags) ==
    /\ call.op \in {"init", "add_predefined"}
    /\ LET r == Activate(predefined, actions, flags) IN
       /\ predefined' = r.reg
       /\ actions' = r.acts
       /\ outcome' = r.err
       /\ pc' = IF r.err = "" THEN "idle" ELSE "raise"
    /\ call' = [op |-> "add_arguments", name |-> flags[1], arg |-> None]
    /\ UNCHANGED <<store, tokens, pos, positionals, extras, log, failAt, parses>>

\* sample argument strings for an activated argument
SampleValues(action) ==
    (IF action.function = "verify_language" THEN {"Z"} ELSE {})
    \cup (IF action.function = "mib" THEN {"100"} ELSE {})
    \cup (IF action.function = "split" THEN {"A,B"} ELSE {})
    \cup (IF action.function = "mktime" THEN {"2020-01-02"} ELSE {})
    \cup (IF action.type = "int" /\ action.choices # {} THEN {"480", "999"} ELSE {})
    \cup (IF PyStr("html") \in action.choices THEN {"html"} ELSE {})
    \cup (IF PyStr("subtitles") \in action.choices THEN {"subtitles"} ELSE {})
    \cup (IF action.dest = "work_dir" THEN {"/tmp/out"} ELSE {})

\* the argument strings tried: the option strings of the activated
\* arguments, a sample value for each, a plain word, an option string
\* that no argument owns and the abbreviations of the activated options
Alphabet(acts) ==
    OptionStrings(acts)
    \cup UNION { SampleValues(acts[i]) : i \in DOMAIN acts }
    \cup {"mpv", "--fs"}
    \cup { a \in DOMAIN Abbreviations :
             Abbreviations[a] \cap OptionStrings(acts) # {} }

TokenSeqs(acts) == UNION { [1..n -> Alphabet(acts)] : n \in 0..MaxTokens }

\* parser.parse_args(toks, namespace=...): settings = namespace or Settings(),
\* then argparse sets up its scan; reuse: the caller passes the store of the
\* previous parse as namespace
ParseArgs(toks, reuse, limit) ==
    /\ pc \in {"idle", "done", "error", "raise", "exit"}
    /\ ~(call.op = "add_arguments" /\ pc = "raise")
    /\ parses < limit
    /\ (reuse => parses > 0)
    /\ store' = IF reuse THEN store ELSE Settings
    /\ tokens' = toks
    /\ pos' = 1
    /\ positionals' = SelectSeq(actions, LAMBDA a : a.option_strings = <<>>)
    /\ extras' = <<>>
    /\ log' = <<>>
    /\ LET amb == AmbiguousIndices(actions, toks) IN
       IF amb = {}
       THEN failAt' = 0 /\ outcome' = "" /\ pc' = "scan"
       ELSE /\ failAt' = Smallest(amb)
            /\ outcome' = "ambiguous option"
            /\ pc' = "error"
    /\ call' = [op |-> "parse_args", name |-> "", arg |-> PyBool(reuse)]
    /\ parses' = parses + 1
    /\ UNCHANGED <<predefined, actions>>

Continue(m) ==
    /\ store' = m.store
    /\ log' = m.log
    /\ failAt' = m.failAt
    /\ outcome' = m.outcome
    /\ pc' = IF m.status = "ok" THEN "scan" ELSE m.status

\* loop body, start_index at an argument with positionals left:
\* consume_positionals
ScanPositionals ==
    /\ pc = "scan" /\ pos <= MaxOptionIndex(tokens)
    /\ tokens[pos] \notin DashStrings
    /\ positionals # <<>>
    /\ \E net \in BOOLEAN :
         LET r == ConsumePositionals(Machine, positionals, tokens, pos, net) IN
         /\ Continue(r.m)
         /\ pos' = r.pos
         /\ positionals' = r.positionals
    /\ UNCHANGED <<predefined, actions, tokens, extras, call, parses>>

\* loop body, start_index at an argument and no positional left: the strings
\* up to the next option string go to extras
ScanExtras ==
    /\ pc = "scan" /\ pos <= MaxOptionIndex(tokens)
    /\ tokens[pos] \notin DashStrings
    /\ positionals = <<>>
    /\ extras' = extras \o Range(pos, NextOptionIndex(tokens, pos) - 1)
    /\ pos' = NextOptionIndex(tokens, pos)
    /\ UNCHANGED <<predefined, actions, store, pc, tokens, positionals, log,
                   failAt, outcome, call, parses>>

\* loop body, start_index at an option string: consume_optional
ScanOptional ==
    /\ pc = "scan" /\ pos <= MaxOptionIndex(tokens)
    /\ tokens[pos] \in DashStrings
    /\ LET i == ActionFor(actions, tokens[pos]) IN
       IF i = 0
       THEN /\ extras' = Append(extras, pos)
            /\ pos' = pos + 1
            /\ UNCHANGED <<store, pc, log, failAt, outcome>>
       ELSE \E net \in BOOLEAN :
              LET r == ConsumeOptional(Machine, actions[i], tokens, pos, net) IN
              /\ Continue(r.m)
              /\ pos' = r.pos
              /\ extras' = extras
    /\ UNCHANGED <<predefined, actions, tokens, positionals, call, parses>>

\* after the loop: the positionals that follow the last option string, the
\* strings left over, and parse_args' error for unrecognized arguments
Finish ==
    /\ pc = "scan" /\ pos > MaxOptionIndex(tokens)
    /\ \E net \in BOOLEAN :
         LET r == ConsumePositionals(Machine, positionals, tokens, pos, net)
             ex == extras \o Range(r.pos, Len(tokens))
         IN  /\ store' = r.m.store
             /\ log' = r.m.log
             /\ failAt' = r.m.failAt
             /\ pos' = IF r.m.status = "ok" THEN Len(tokens) + 1 ELSE r.pos
             /\ positionals' = r.positionals
             /\ extras' = IF r.m.status = "ok" THEN ex ELSE extras
             /\ pc' = IF r.m.status # "ok" THEN r.m.status
                      ELSE IF ex # <<>> THEN "error" ELSE "done"
             /\ outcome' = IF r.m.status # "ok" THEN r.m.outcome
                           ELSE IF ex # <<>> THEN "unrecognized arguments"
                           ELSE ""
    /\ UNCHANGED <<predefined, actions, tokens, call, parses>>

Next ==
    \/ \E flags \in ActivationLists : AddArguments(flags)
    \/ \E toks \in TokenSeqs(actions) : ParseArgs(toks, FALSE, 1)
    \/ ScanPositionals
    \/ ScanExtras
    \/ ScanOptional
    \/ Finish

Spec == Init /\ [][Next]_vars

-----------------------------------------------------------------------------
(* Repeated parses into one store: parse_args(args, namespace=settings) *)

ValidatedLists ==
    { <<"--mode">>, <<"--quality">>, <<"--download">>, <<"--lang">>,
      <<"work_dir", "--mode">> }

\* the argument lists of the repeated parses are one string shorter
ShortTokenSeqs(acts) ==
    UNION { [1..n -> Alphabet(acts)] : n \in 0..(MaxTokens - 1) }

NextReparse ==
    \/ \E flags \in ValidatedLists : AddArguments(flags)
    \/ \E toks \in ShortTokenSeqs(actions) :
         \E reuse \in BOOLEAN : ParseArgs(toks, reuse, MaxParses)
    \/ ScanPositionals
    \/ ScanExtras
    \/ ScanOptional
    \/ Finish

SpecReparse == Init /\ [][NextReparse]_vars

-----------------------------------------------------------------------------
(* Attribute assignment on a Settings object *)

SetKeys == { "checksums", "checksum", "quiet", "mode", "command", "languages" }
SetValues == { None, PyBool(FALSE), PyInt(2), PyStr("html") }

\* settings.key = value
SetAttribute(key, value) ==
    /\ LET r == Setattr(store, key, value) IN
       /\ store' = r.ns
       /\ outcome' = IF r.ok THEN "" ELSE "AttributeError"
    /\ call' = [op |-> "setattr", name |-> key, arg |-> value]
    /\ UNCHANGED <<predefined, actions, pc, tokens, pos, positionals, extras,
                   log, failAt, parses>>

NextStore == \E key \in SetKeys : \E value \in SetValues : SetAttribute(key, value)

SpecStore == Init /\ [][NextStore]_vars

-----------------------------------------------------------------------------
(* Registration after construction and before activation: a further       *)
(* add_predefined call                                                     *)

RegisterInputs ==
    { [flags |-> <<"--quiet">>, kwargs |-> [Keywords EXCEPT !.action = "store_true"]],
      [flags |-> <<"--quiet", "-q">>, kwargs |-> [Keywords EXCEPT !.action = "count"]],
      [flags |-> <<"--mode", "-m">>, kwargs |-> Keywords],
      [flags |-> <<"--keyname">>,
       kwargs |-> [Keywords EXCEPT !.action = "store_true",
                                   !.dest = "include_keyname"]],
      [flags |-> <<"--keyname">>, kwargs |-> [Keywords EXCEPT !.action = "store_true"]],
      [flags |-> <<"--latest">>,
       kwargs |-> [Keywords EXCEPT !.action = "store_const",
                                   !.const = PyTuple(<<"LatestVideos">>),
                                   !.dest = "include_categories"]] }

AddPredefined(flags, kwargs) ==
    /\ call.op \in {"init", "add_predefined"}
    /\ predefined' = Register(predefined, flags, kwargs)
    /\ outcome' = ""
    /\ call' = [op |-> "add_predefined", name |-> flags[1],
                arg |-> [kwargs EXCEPT !.flags = flags]]
    /\ UNCHANGED <<actions, store, pc, tokens, pos, positionals, extras, log,
                   failAt, parses>>

RegistryLists == { <<"--quiet">>, <<"--mode">>, <<"--keyname">>, <<"--latest">>,
                   <<"--quiet", "--mode", "--keyname">> }

NextRegistry ==
    \/ \E r \in RegisterInputs : AddPredefined(r.flags, r.kwargs)
    \/ \E flags \in RegistryLists : AddArguments(flags)

SpecRegistry == Init /\ [][NextRegistry]_vars

-----------------------------------------------------------------------------
(* Properties *)

ParseEnded == call.op = "parse_args" /\ pc \in {"done", "error", "raise", "exit"}

Activated(flag) == flag \in OptionStrings(actions)

\* C1: an assignment to a name that is no declared field of Settings fails
\* with AttributeError and changes no field; an assignment to a declared
\* field succeeds and overwrites that field only.
C1_ClosedWorldWrite ==
    [][ call'.op = "setattr" =>
          IF call'.name \in Fields
          THEN /\ outcome' = ""
               /\ store' = [store EXCEPT ![call'.name] = call'.arg]
          ELSE /\ outcome' = "AttributeError"
               /\ store' = store ]_vars

\* an assignment to an undeclared name was refused on a store that earlier
\* assignments had changed
C1_Witness ==
    /\ call.op = "setattr" /\ call.name = "checksum"
    /\ outcome = "AttributeError"
    /\ store.checksums = PyBool(FALSE) /\ store.mode = PyStr("html")

\* C9 as stated: registering a name that is already in the registry fails
\* with a duplicate-name error and leaves the registry as it was.
C9_DuplicateRejected ==
    [][ (call'.op = "add_predefined" /\ call'.name \in DOMAIN predefined) =>
          (outcome' = "DuplicateNameError" /\ predefined' = predefined) ]_vars

\* C9 amended: registering a name that is already in the registry succeeds,
\* replaces the entry of that name by the new one and leaves every other
\* entry unchanged.
C9_DuplicateReplaces ==
    [][ (call'.op = "add_predefined" /\ call'.name \in DOMAIN predefined) =>
          /\ outcome' = ""
          /\ DOMAIN predefined' = DOMAIN predefined
          /\ predefined'[call'.name] = call'.arg
          /\ \A n \in DOMAIN predefined \ {call'.name} :
                predefined'[n] = predefined[n] ]_vars

\* --quiet, registered by the constructor as a counter, re-registered as
\* a boolean toggle
C9_Witness ==
    /\ call.op = "add_predefined" /\ call.name = "--quiet"
    /\ predefined["--quiet"].action = "store_true"
    /\ PredefinedArguments["--quiet"].action = "count"
    /\ \A n \in DOMAIN PredefinedArguments \ {"--quiet"} :
          predefined[n] = PredefinedArguments[n]

\* C10: through any sequence of parses into one store, successful or
\* failed, mode is unset or one of its five choices, quality is 1080 or one
\* of its four choices, download is False or one of its three choices and
\* lang is "E" or a code of the remote list; a parse that ends with an
\* invalid choice or a failed conversion has written nothing for the
\* failing token.
C10_ValidatedFields ==
    /\ store.mode \in {None} \cup { PyStr(x) :
          x \in {"stdout", "filesystem", "m3u", "m3ucompat", "html"} }
    /\ store.quality \in { PyInt(x) : x \in {1080, 240, 360, 480, 720} }
    /\ store.download \in {PyBool(FALSE)} \cup { PyStr(x) :
          x \in {"media", "subtitles", "friendly-subtitles"} }
    /\ store.lang \in {PyStr("E")} \cup
          { PyStr(RemoteLanguages[i].code) : i \in DOMAIN RemoteLanguages }
    /\ (outcome \in {"invalid choice", "invalid int value", "ValueError",
                     "TypeError"}) =>
          /\ pc \in {"error", "raise"}
          /\ failAt # 0
          /\ \A k \in DOMAIN log : log[k].at # failAt

\* a second parse into the store that the first left with quality 480 ends
\* with an invalid choice
C10_Witness ==
    /\ parses = 2 /\ call.arg = PyBool(TRUE)
    /\ tokens = <<"--quality", "999">>
    /\ pc = "error" /\ outcome = "invalid choice"
    /\ store.quality = PyInt(480)


\* the boolean toggles of the CLI table: destination and stored boolean
Toggles ==
    ("--hard-subtitles" :> [dest |-> "hard_subtitles", value |-> TRUE])
 @@ ("--no-checksum" :> [dest |-> "checksums", value |-> FALSE])
 @@ ("--no-warning" :> [dest |-> "warning", value |-> FALSE])
 @@ ("--clean-symlinks" :> [dest |-> "clean_all_symlinks", value |-> TRUE])
 @@ ("--ntfs" :> [dest |-> "safe_filenames", value |-> TRUE])
 @@ ("--forever" :> [dest |-> "stream_forever", value |-> TRUE])

OnlyActivated(flag) == Len(actions) = 1 /\ actions[1].option_strings = <<flag>>

\* C2: with one boolean toggle activated, parsing that flag alone succeeds
\* and leaves every field at its default except the documented destination,
\* which holds the documented boolean.
C2_TogglesSetDocumentedField ==
    \A flag \in DOMAIN Toggles :
        (ParseEnded /\ OnlyActivated(flag) /\ tokens = <<flag>>) =>
            /\ pc = "done"
            /\ store = [Settings EXCEPT ![Toggles[flag].dest] =
                                            PyBool(Toggles[flag].value)]

\* C3: --languages takes no value: a parse never ends with a missing-value
\* error at a --languages token, and when its terminal action has run the
\* scan has consumed the flag alone.
C3_LanguagesTakesNoValue ==
    /\ ~( /\ ParseEnded /\ Activated("--languages")
          /\ outcome = "expected one argument"
          /\ failAt # 0 /\ tokens[failAt] = "--languages" )
    /\ \A k \in DOMAIN log :
          (log[k].ev = "exit" /\ tokens[log[k].at] = "--languages") =>
              pos = log[k].at + 1

\* C4: activation has checked every destination, so that after a successful
\* add_arguments no parse ends with an unknown-field failure of a store
\* write.
C4_NoUnknownFieldAfterActivation ==
    (call.op = "parse_args" /\ actions # <<>>) => outcome # "AttributeError"

\* positions of the tokens that caused an error of the parse
FailingPositions ==
    { extras[i] : i \in DOMAIN extras } \cup (IF failAt = 0 THEN {} ELSE {failAt})

\* C5 as stated: no token after a failing token (unrecognized, missing
\* value, invalid choice, failed coercion) causes a store write or a
\* terminal action.
C5_NothingAfterFirstFailure ==
    \A k \in DOMAIN log : \A i \in FailingPositions :
        log[k].at <= Len(tokens) => log[k].at < i

\* C5 amended: a missing value, an invalid choice, a failed conversion or an
\* exception of an action ends the parse at that token, so no later token
\* causes a store write or a terminal action (an ambiguous abbreviation is
\* refused before any token is acted on); an unrecognized token does not
\* end the scan: it is set aside and reported only after the whole input
\* has been scanned, so later tokens still write and terminate; store writes
\* and terminal actions happen in left-to-right token order.
C5_AbortingErrorsStopTheScan ==
    /\ failAt # 0 =>
          /\ pc \in {"error", "raise"}
          /\ \A k \in DOMAIN log : log[k].at < failAt
    /\ \A k, l \in DOMAIN log : k < l => log[k].at < log[l].at
    /\ \A k \in DOMAIN log : log[k].ev = "exit" => (k = Len(log) /\ pc = "exit")
    /\ (pc = "error" /\ outcome = "unrecognized arguments") =>
          (extras # <<>> /\ failAt = 0 /\ pos > Len(tokens))
    /\ pc = "done" => (extras = <<>> /\ failAt = 0)

\* a write, then a missing value, then a flag that would have written
C5_Witness ==
    /\ tokens = <<"--hard-subtitles", "--quality", "--hard-subtitles">>
    /\ Activated("--quality") /\ Activated("--hard-subtitles")
    /\ pc = "error" /\ outcome = "expected one argument" /\ failAt = 2
    /\ log = << [at |-> 1, ev |-> "write", dest |-> "hard_subtitles"] >>

\* the value the last of the flag tokens of one destination stores
LastFlag(flags) == Largest({ i \in DOMAIN tokens : tokens[i] \in flags })

Present(flags) == \E i \in DOMAIN tokens : tokens[i] \in flags

OptionsOnly == \A i \in DOMAIN actions : actions[i].option_strings # <<>>

HasPositional(dest) ==
    \E i \in DOMAIN actions :
        actions[i].option_strings = <<>> /\ actions[i].dest = dest

\* C7: with work_dir and command activated, from the token that is bound to
\* command on, every token to the end of the input is stored in command, as
\* given and in order; nothing else is written for those tokens; and, the
\* positionals being bound in activation order, activating work_dir before
\* command makes ["/tmp/out", "mpv", "--fs"] give work_dir "/tmp/out" and
\* command ["mpv", "--fs"].
C7_RemainderVerbatim ==
    (HasPositional("work_dir") /\ HasPositional("command")) =>
      /\ \A k \in DOMAIN log :
            (log[k].dest = "command" /\ log[k].at <= Len(tokens)) =>
                /\ store.command = PyList(SubSeq(tokens, log[k].at, Len(tokens)))
                /\ k = Len(log)
                /\ pos = Len(tokens) + 1
                /\ pc \in {"scan", "done", "error"}
                /\ failAt = 0
                /\ \A i \in DOMAIN extras : extras[i] < log[k].at
      /\ ( /\ ParseEnded
           /\ tokens = <<"/tmp/out", "mpv", "--fs">>
           /\ \E i, j \in DOMAIN actions :
                 /\ i < j
                 /\ actions[i].option_strings = <<>> /\ actions[i].dest = "work_dir"
                 /\ actions[j].option_strings = <<>> /\ actions[j].dest = "command" ) =>
            /\ pc = "done"
            /\ store.work_dir = PyStr("/tmp/out")
            /\ store.command = PyList(<<"mpv", "--fs">>)

\* the alias of an activated flag ends up in command and is not acted on
C7_Witness ==
    /\ pc = "done"
    /\ Activated("--hard-subtitles")
    /\ tokens = <<"/tmp/out", "mpv", "--hard-subtitles">>
    /\ store.work_dir = PyStr("/tmp/out")
    /\ store.command = PyList(<<"mpv", "--hard-subtitles">>)
    /\ store.hard_subtitles = PyBool(FALSE)

\* C8: --lang/-l and --download/-d given without a value parse
\* successfully (the remote list being reachable), --download storing its
\* declared constant "media".
C8_OptionalOneFallback ==
    \A flag \in {"--lang", "-l", "--download", "-d"} :
        (ParseEnded /\ Activated(flag) /\ tokens = <<flag>>
                    /\ outcome # "URLError") =>
            /\ pc = "done"
            /\ flag \in {"--download", "-d"} => store.download = PyStr("media")

====
